---- MODULE Spec2Model ----
(***************************************************************************)
(* Model of the MCP protocol relay of brunovlucena/home:                   *)
(*   thin relay   : agent-sre-refactor/deployments/mcp-server/mcp_server.py *)
(*   simple relay : agent-sre/mcp_simple_server.py                          *)
(* A JSON scalar is written as a string: a JSON string is the string       *)
(* itself, any other JSON value v is the token "json:v".  A text is the     *)
(* sequence of the fragments an f-string concatenates.                      *)
(***************************************************************************)
EXTENDS Integers, Sequences, FiniteSets, TLC

\* ------------------------------------------------------------------ bounds
\* largest number of keys in the arguments object of an enumerated request
MaxArgs == 2

\* most HTTP calls followed for one request
MaxCalls == 3

\* most monitoring_worker threads followed
MaxWorkers == 3

\* most outbound calls followed for one probe
MaxHops == 3

\* --------------------------------------------------------- JSON encodings
Absent == "<absent>"

Relays == {"thin", "simple"}

\* f"{x}" of a JSON value: a string prints as itself, a number as its digits,
\* a list as Python's repr of the list
Str(x) ==
    CASE x = "json:7"    -> "7"
      [] x = "json:42"   -> "42"
      [] x = "json:1"    -> "1"
      [] x = "json:0"    -> "0"
      [] x = "json:null" -> "None"
      [] x = "json:[x]"  -> "['x']"
      [] OTHER           -> x

\* mutant: only a missing name counts as no name (if tool_name is None)
Falsy_NoneOnly(x) == x = Absent

\* Python truthiness of a JSON value (None stands for a missing key)
Falsy(x) == x \in {Absent, "", "json:0", "json:null", "json:[]", "json:false"}

\* a list or dict cannot be a dict key (TypeError: unhashable type)
Unhashable(x) == x \in {"json:[x]", "json:[]"}

\* ------------------------------------------------------------ the inputs
Ids == {"json:1", "req-a", "json:null"}

Methods == {"initialize", "tools/list", "tools/call",
            "notifications/initialized", "resources/list", "json:7"}

KnownMethods == {"initialize", "tools/list", "tools/call"}

ToolNames == {"sre_chat", "analyze_logs", "incident_response",
              "monitoring_advice", "health_check"}

Names == ToolNames \cup {Absent, "", "json:0", "json:42", "json:[x]", "bogus_tool"}

ArgKeys == {"message", "logs", "incident", "system", "extra"}

\* the arguments member of params: missing, not an object, or an object
ArgObjects ==
    { [k \in K |-> "hi"] : K \in {S \in SUBSET ArgKeys : Cardinality(S) <= MaxArgs} }
    \cup { [k \in {key} |-> ""] : key \in ArgKeys }

NoObject == [k \in {} |-> ""]

Arguments ==
    { [kind |-> "object", obj |-> o] : o \in ArgObjects }
    \cup { [kind |-> k, obj |-> NoObject] : k \in {"absent", "array", "null"} }

\* the params member of the envelope
NoArguments == [kind |-> "absent", obj |-> NoObject]

Params ==
    { [kind |-> "object", name |-> n, arguments |-> a] : n \in Names, a \in Arguments }
    \cup { [kind |-> k, name |-> Absent, arguments |-> NoArguments] :
              k \in {"absent", "array", "null"} }

NoParams == [kind |-> "absent", name |-> Absent, arguments |-> NoArguments]

\* the body of a POST /mcp.  kind "invalid" is a body that is not JSON;
\* has is the set of keys k for which Python's `k in data` is true (keys of
\* an object, elements of an array, substrings of a string)
Envelopes ==
    { [kind |-> "object",
       has |-> (IF m = Absent THEN {} ELSE {"method"})
               \cup (IF i = Absent THEN {} ELSE {"id"}),
       method |-> m, id |-> i, params |-> p] :
         m \in Methods \cup {Absent}, i \in Ids \cup {Absent}, p \in Params }

NonEnvelopes ==
    { [kind |-> k, has |-> h, method |-> Absent, id |-> Absent, params |-> NoParams] :
         k \in {"array", "string"}, h \in SUBSET {"method", "id"} }
    \cup { [kind |-> k, has |-> {}, method |-> Absent, id |-> Absent, params |-> NoParams] :
         k \in {"invalid", "number", "null"} }

Bodies == Envelopes \cup NonEnvelopes

NoBody == [kind |-> "none", has |-> {}, method |-> Absent, id |-> Absent, params |-> NoParams]

\* ----------------------------------------------------------- the backend
\* the field of the backend's JSON body that holds a tool's answer
ResultFields == {"response", "analysis", "advice"}

FieldText(k) ==
    CASE k = "response" -> "hello"
      [] k = "analysis" -> "3 errors found"
      [] k = "advice"   -> "alert on p99"

\* HTTP bodies the backend can send: a JSON object, a JSON array, not JSON
BackendBodies ==
    { [kind |-> "object", fields |-> [k \in K |-> FieldText(k)], raw |-> "{..}"] :
          K \in SUBSET ResultFields }
    \cup { [kind |-> "array", fields |-> NoObject, raw |-> "[]"],
           [kind |-> "not_json", fields |-> NoObject, raw |-> "Bad Gateway"] }

BackendStatuses == {200, 404, 500}

NoBackendBody == [kind |-> "none", fields |-> NoObject, raw |-> ""]

\* the ways one HTTP call to the agent service can end
BackendReplies ==
    { [kind |-> "http", status |-> s, body |-> b] :
          s \in BackendStatuses, b \in BackendBodies }
    \cup { [kind |-> k, status |-> 0, body |-> NoBackendBody] :
          k \in {"connect_error", "timeout"} }

\* the ways an in-process call of the simple relay's SREAgent can end
AgentOutcomes ==
    { [kind |-> k, status |-> 0, body |-> [kind |-> "text", fields |-> NoObject, raw |-> t]] :
          k \in {"returned"}, t \in {"agent answer", "Error: Ollama connection not available"} }
    \cup { [kind |-> "raised", status |-> 0,
            body |-> [kind |-> "text", fields |-> NoObject, raw |-> "model runner crashed"]] }

NoReply == [kind |-> "none", status |-> 0, body |-> NoBackendBody]

\* ---------------------------------------------------------- the responses
NoResult == [kind |-> "none", serverName |-> "", protocolVersion |-> "", version |-> "",
             tools |-> <<>>, text |-> <<>>]

NoError == [code |-> 0, message |-> <<>>]

NoResponse == [status |-> 0, keys |-> {}, jsonrpc |-> Absent, id |-> Absent,
               result |-> NoResult, error |-> NoError]

\* web.json_response({"jsonrpc": "2.0", "id": id, "result": result})
ResultResponse(id, result) ==
    [status |-> 200, keys |-> {"jsonrpc", "id", "result"}, jsonrpc |-> "2.0",
     id |-> id, result |-> result, error |-> NoError]

\* web.json_response({"jsonrpc": "2.0", "id": id, "error": {code, message}})
ErrorResponse(id, code, message) ==
    [status |-> 200, keys |-> {"jsonrpc", "id", "error"}, jsonrpc |-> "2.0",
     id |-> id, result |-> NoResult, error |-> [code |-> code, message |-> message]]

ServerName(r) == IF r = "thin" THEN "sre-agent-mcp-server" ELSE "sre-agent-simple-mcp"

\* mutant: only the chat tool is advertised
Catalog_ChatOnly(r) == <<"sre_chat">>

\* mutant: the last catalog entry is lost
Catalog_NoHealth(r) ==
    IF r = "thin"
    THEN <<"sre_chat", "analyze_logs", "incident_response", "monitoring_advice">>
    ELSE <<"sre_chat", "analyze_logs">>

\* the tools of tools/list, in the order of the list
Catalog(r) ==
    IF r = "thin"
    THEN <<"sre_chat", "analyze_logs", "incident_response", "monitoring_advice",
           "health_check">>
    ELSE <<"sre_chat", "analyze_logs", "health_check">>

\* mutant: only the documented notification is acknowledged silently
NotificationResponse_ErrorOnUnknown(method) ==
    IF method = "notifications/initialized"
    THEN [status |-> 200, keys |-> {}, jsonrpc |-> Absent, id |-> Absent,
          result |-> NoResult, error |-> NoError]
    ELSE [status |-> 200, keys |-> {"jsonrpc", "error"}, jsonrpc |-> "2.0", id |-> Absent,
          result |-> NoResult,
          error |-> [code |-> -32601, message |-> <<"Unknown method: ", Str(method)>>]]

\* if 'method' in data and 'id' not in data: return web.json_response({})
NotificationResponse(method) ==
    [status |-> 200, keys |-> {}, jsonrpc |-> Absent, id |-> Absent,
     result |-> NoResult, error |-> NoError]

InitializeResponse(r, request_id) ==
    ResultResponse(request_id,
        [kind |-> "initialize", serverName |-> ServerName(r),
         protocolVersion |-> "2024-11-05", version |-> "1.0.0", tools |-> <<>>, text |-> <<>>])

ToolsListResponse(r, request_id) ==
    ResultResponse(request_id,
        [kind |-> "tools", serverName |-> "", protocolVersion |-> "", version |-> "",
         tools |-> Catalog(r), text |-> <<>>])

\* mutant: the missing name is also an HTTP error
ToolNameRequiredResponse_Http400(request_id) ==
    [ErrorResponse(request_id, -32602, <<"Tool name is required">>) EXCEPT !.status = 400]

ToolNameRequiredResponse(request_id) ==
    ErrorResponse(request_id, -32602, <<"Tool name is required">>)

\* mutant: the success answer also carries an error member
ToolResultResponse_NullError(request_id, result) ==
    [status |-> 200, keys |-> {"jsonrpc", "id", "result", "error"}, jsonrpc |-> "2.0",
     id |-> request_id,
     result |-> [kind |-> "content", serverName |-> "", protocolVersion |-> "", version |-> "",
                 tools |-> <<>>, text |-> result],
     error |-> NoError]

ToolResultResponse(request_id, result) ==
    ResultResponse(request_id,
        [kind |-> "content", serverName |-> "", protocolVersion |-> "", version |-> "",
         tools |-> <<>>, text |-> result])

\* mutant: an unknown method is reported as an invalid request
UnknownMethodResponse_InvalidRequest(method, request_id) ==
    ErrorResponse(request_id, -32600, <<"Invalid Request">>)

UnknownMethodResponse(method, request_id) ==
    ErrorResponse(request_id, -32601, <<"Unknown method: ", Str(method)>>)

\* the else branch: neither a notification nor a request
ParseErrorResponse ==
    [status |-> 400, keys |-> {"jsonrpc", "error"}, jsonrpc |-> "2.0", id |-> Absent,
     result |-> NoResult, error |-> [code |-> -32700, message |-> <<"Parse error">>]]

\* except Exception as e: the answer carries str(e) and never an id
InternalErrorResponse(request_id, detail) ==
    [status |-> 500, keys |-> {"jsonrpc", "error"}, jsonrpc |-> "2.0", id |-> Absent,
     result |-> NoResult, error |-> [code |-> -32603, message |-> <<detail>>]]

\* ------------------------------------------------- forwarding a tool call
\* dict.get(key, default)
Get(obj, key, default) == IF key \in DOMAIN obj THEN obj[key] ELSE default

\* the emoji the source puts before "Unknown tool" (mis-encoded in the simple relay)
CrossMark(r) == IF r = "thin" THEN "<U+274C> " ELSE "<U+00E2 U+0152> "

\* mutant: the sentinel does not name the tool
UnknownToolText_NoName(r, name) == <<CrossMark(r), "Unknown tool">>

UnknownToolText(r, name) == <<CrossMark(r), "Unknown tool: ", Str(name)>>

\* except Exception as e: return f"Error forwarding to agent service: {str(e)}"
ForwardErrorText(detail) == <<"Error forwarding to agent service: ", detail>>

\* except Exception as e: return f"Error executing tool {name}: {str(e)}"
ExecuteErrorText(name, detail) == <<"Error executing tool ", Str(name), ": ", detail>>

\* mutant: an advertised tool has no endpoint
endpoint_map_NoAdvice ==
    [sre_chat |-> "/chat", analyze_logs |-> "/analyze-logs",
     incident_response |-> "/incident-response", health_check |-> "/health"]

endpoint_map ==
    [sre_chat |-> "/chat", analyze_logs |-> "/analyze-logs",
     incident_response |-> "/incident-response",
     monitoring_advice |-> "/monitoring-advice", health_check |-> "/health"]

\* the one argument a tool forwards
ExpectedArgument(tool_name) ==
    CASE tool_name = "sre_chat"          -> "message"
      [] tool_name = "analyze_logs"      -> "logs"
      [] tool_name = "incident_response" -> "incident"
      [] tool_name = "monitoring_advice" -> "system"

\* mutant: the arguments are forwarded as they came
RequestData_PassThrough(tool_name, arguments) == arguments.obj

\* request_data = {"<field>": arguments.get("<field>", "")}
RequestData(tool_name, arguments) ==
    IF tool_name = "health_check"
    THEN NoObject
    ELSE [k \in {ExpectedArgument(tool_name)} |-> Get(arguments.obj, k, "")]

\* mutant: every tool reads the chat field
ResultField_Response(tool_name) == "response"

\* the field of the backend's answer a tool reads, and the text used without it
ResultField(tool_name) ==
    CASE tool_name = "sre_chat"          -> "response"
      [] tool_name = "analyze_logs"      -> "analysis"
      [] tool_name = "incident_response" -> "response"
      [] tool_name = "monitoring_advice" -> "advice"

Placeholder(tool_name) ==
    CASE tool_name = "sre_chat"          -> "No response"
      [] tool_name = "analyze_logs"      -> "No analysis"
      [] tool_name = "incident_response" -> "No response"
      [] tool_name = "monitoring_advice" -> "No advice"

NoCall == [verb |-> "none", path |-> "", json |-> NoObject, timeout |-> 0]

\* mutant: the tool calls are made without a timeout
AgentCall_NoTimeout(tool_name, arguments) ==
    [verb |-> IF tool_name = "health_check" THEN "GET" ELSE "POST",
     path |-> endpoint_map[tool_name],
     json |-> IF tool_name = "health_check" THEN NoObject
              ELSE RequestData(tool_name, arguments),
     timeout |-> 0]

\* session.get(url, timeout=10) or session.post(url, json=request_data, timeout=30)
AgentCall(tool_name, arguments) ==
    IF tool_name = "health_check"
    THEN [verb |-> "GET", path |-> endpoint_map[tool_name], json |-> NoObject,
          timeout |-> 10]
    ELSE [verb |-> "POST", path |-> endpoint_map[tool_name],
          json |-> RequestData(tool_name, arguments), timeout |-> 30]

Returned(text) == [kind |-> "return", text |-> text, call |-> NoCall]

\* an exception leaves the block with str(e) = detail
Raised(detail) == [kind |-> "raise", text |-> <<detail>>, call |-> NoCall]

Awaiting(call) == [kind |-> "await", text |-> <<>>, call |-> call]

\* the try block of MCPServer._forward_to_agent up to its HTTP call:
\* endpoint_map.get raises on an unhashable name, arguments.get on a non-object
TryForward(tool_name, arguments) ==
    IF Unhashable(tool_name)
    THEN Raised("unhashable type: 'list'")
    ELSE IF tool_name \notin DOMAIN endpoint_map
    THEN Returned(UnknownToolText("thin", tool_name))
    ELSE IF tool_name # "health_check" /\ arguments.kind \in {"array", "null"}
    THEN Raised("object has no attribute 'get'")
    ELSE Awaiting(AgentCall(tool_name, arguments))

\* mutant: the forwarding step has no except clause
CatchForward_Reraise(step) == step

\* except Exception as e of _forward_to_agent: every exception becomes a text
CatchForward(step) ==
    IF step.kind = "raise" THEN Returned(ForwardErrorText(step.text[1])) ELSE step

\* MCPServer._forward_to_agent up to its HTTP call: what it returns without
\* calling, or the call it makes
forward_to_agent(tool_name, arguments) == CatchForward(TryForward(tool_name, arguments))

JsonDumps(body) == <<"json.dumps(", body.raw, ")">>

\* the try block of _forward_to_agent from the end of its HTTP call: the
\* session raises on a failed connection and on a timeout (str of a
\* TimeoutError is empty), response.json() on a body that is not JSON, data.get
\* on a body that is no object
TryForwardResult(tool_name, reply) ==
    IF reply.kind = "connect_error"
    THEN Raised("Cannot connect to host")
    ELSE IF reply.kind = "timeout"
    THEN Raised("")
    ELSE IF tool_name = "health_check"
    THEN IF reply.status = 200
         THEN IF reply.body.kind = "not_json"
              THEN Raised("Attempt to decode JSON with unexpected mimetype")
              ELSE Returned(JsonDumps(reply.body))
         ELSE Returned(<<"Error: HTTP ", ToString(reply.status)>>)
    ELSE IF reply.status = 200
         THEN IF reply.body.kind = "not_json"
              THEN Raised("Attempt to decode JSON with unexpected mimetype")
              ELSE IF reply.body.kind = "array"
              THEN Raised("object has no attribute 'get'")
              ELSE Returned(<<Get(reply.body.fields, ResultField(tool_name),
                                  Placeholder(tool_name))>>)
         ELSE Returned(<<"Error: HTTP ", ToString(reply.status), " - ", reply.body.raw>>)

\* mutant: a call that failed is made again
ForwardResult_RetryOnFailure(tool_name, reply) ==
    IF reply.kind # "http" \/ reply.status # 200
    THEN Awaiting(AgentCall(tool_name, NoArguments))
    ELSE CatchForward(TryForwardResult(tool_name, reply))

\* MCPServer._forward_to_agent from the end of its HTTP call
ForwardResult(tool_name, reply) == CatchForward(TryForwardResult(tool_name, reply))

\* the try block of SimpleMCPServer._execute_tool up to its call of the agent
TryExecute(name, arguments) ==
    IF name \in {"sre_chat", "analyze_logs"}
    THEN IF arguments.kind \in {"array", "null"}
         THEN Raised("object has no attribute 'get'")
         ELSE IF Falsy(Get(arguments.obj, ExpectedArgument(name), ""))
         THEN Returned(<<IF name = "sre_chat"
                         THEN "Error: Message is required for sre_chat"
                         ELSE "Error: Logs are required for analyze_logs">>)
         ELSE Awaiting([verb |-> "agent",
                        path |-> IF name = "sre_chat" THEN "chat" ELSE "analyze_logs",
                        json |-> RequestData(name, arguments), timeout |-> 0])
    ELSE IF name = "health_check"
    THEN Awaiting([verb |-> "agent", path |-> "health_check", json |-> NoObject,
                   timeout |-> 0])
    ELSE Returned(UnknownToolText("simple", name))

\* mutant: _execute_tool has no except clause
CatchExecute_Reraise(name, step) == step

\* except Exception as e of _execute_tool
CatchExecute(name, step) ==
    IF step.kind = "raise" THEN Returned(ExecuteErrorText(name, step.text[1])) ELSE step

\* SimpleMCPServer._execute_tool up to its call of the agent
execute_tool(name, arguments) == CatchExecute(name, TryExecute(name, arguments))

\* the try block of _execute_tool from the end of the agent's call
TryExecuteResult(name, outcome) ==
    IF outcome.kind = "raised"
    THEN Raised(outcome.body.raw)
    ELSE IF name = "health_check"
    THEN Returned(JsonDumps(outcome.body))
    ELSE Returned(<<outcome.body.raw>>)

\* SimpleMCPServer._execute_tool from the end of the agent's call
ExecuteResult(name, outcome) == CatchExecute(name, TryExecuteResult(name, outcome))

\* ------------------------------------------------------ the RPC dispatcher
Respond(response) == [kind |-> "respond", resp |-> response, call |-> NoCall]

\* the handler is suspended in the call of the backend
Suspend(call) == [kind |-> "await", resp |-> NoResponse, call |-> call]

\* elif method == 'tools/call'
ToolsCall(r, params, request_id) ==
    IF params.kind \in {"array", "null"}
    THEN Respond(InternalErrorResponse(request_id, "object has no attribute 'get'"))
    ELSE LET tool_name == params.name
             arguments == params.arguments
             step      == IF r = "thin" THEN forward_to_agent(tool_name, arguments)
                                        ELSE execute_tool(tool_name, arguments)
         IN  IF Falsy(tool_name)
             THEN Respond(ToolNameRequiredResponse(request_id))
             ELSE IF step.kind = "return"
             THEN Respond(ToolResultResponse(request_id, step.text))
             ELSE IF step.kind = "raise"
             THEN Respond(InternalErrorResponse(request_id, step.text[1]))
             ELSE Suspend(step.call)

\* if 'method' in data and 'id' in data
Dispatch(r, method, params, request_id) ==
    CASE method = "initialize" -> Respond(InitializeResponse(r, request_id))
      [] method = "tools/list" -> Respond(ToolsListResponse(r, request_id))
      [] method = "tools/call" -> ToolsCall(r, params, request_id)
      [] OTHER                 -> Respond(UnknownMethodResponse(method, request_id))

\* handle_mcp_request from the request to its response or to its call of the
\* backend.  request.json() raises on a body that is not JSON; `'method' in
\* data` raises on a number or null; data.get raises on a string or an array
handle_mcp_request(r, data) ==
    IF data.kind = "invalid"
    THEN Respond(InternalErrorResponse(Absent, "Expecting value: line 1 column 1 (char 0)"))
    ELSE IF data.kind \in {"number", "null"}
    THEN Respond(InternalErrorResponse(Absent, "argument is not iterable"))
    ELSE IF "method" \in data.has /\ "id" \notin data.has
    THEN IF data.kind = "object"
         THEN Respond(NotificationResponse(data.method))
         ELSE Respond(InternalErrorResponse(Absent, "object has no attribute 'get'"))
    ELSE IF "method" \in data.has /\ "id" \in data.has
    THEN IF data.kind = "object"
         THEN Dispatch(r, data.method, data.params, data.id)
         ELSE Respond(InternalErrorResponse(Absent, "object has no attribute 'get'"))
    ELSE Respond(ParseErrorResponse)

\* ---------------------------------------------------------------- the state
VARIABLES
    relay,     \* which deployment serves: "thin" (MCPServer) or "simple"
    pc,        \* the handler of POST /mcp: "idle", "awaiting", "responded"
    body,      \* the body of the request being handled
    pending,   \* the call of the backend the handler made for this request
    calls,     \* history: the HTTP calls the handler has made for this request
    answer,    \* how that call ended
    resp,      \* the HTTP response of the handler
    prev,      \* history: the method of the request served before this one
    backend,   \* the state the agent service is in
    probe,     \* the probe route being served: "none", "/health", "/ready"
    hresp,     \* the HTTP response of the probe handler
    lastStatus,\* history: the agent_status of the readiness probe before this one
    streams,   \* the handler of GET /sse of each connection
    tasks,     \* concurrent handlers of POST /mcp: request, reply, response
    frames,    \* the locals each of those handlers keeps across its await
    monitoring_enabled,  \* MONITORING_ENABLED of the agent (app.py)
    monitoring_state,    \* the agent's global monitoring_state
    workers,   \* the monitoring_worker threads: where each one is
    chain,     \* the handlers a health or readiness probe has set running
    hops,      \* history: the outbound calls made for that probe
    up,        \* which of the two services accept connections
    llm,       \* the agent service's SRE agent and its llm are initialized
    readySeen  \* history: the services that have answered ready to a probe

mcpVars == <<relay, pc, body, pending, calls, answer, resp, prev>>

probeVars == <<backend, probe, hresp, lastStatus>>

sseVars == <<streams>>

concVars == <<tasks, frames>>

monVars == <<monitoring_enabled, monitoring_state, workers>>

meshVars == <<chain, hops, up, llm, readySeen>>

nonMcpVars == <<probeVars, sseVars, concVars, monVars, meshVars>>

vars == <<mcpVars, nonMcpVars>>

\* the agent service answers /health with 200 and JSON ("up"), with 200 and a
\* body that is not JSON ("bad_body"), with another status ("error"), refuses
\* the connection ("down") or never answers ("hung")
BackendStates == {"up", "bad_body", "error", "down", "hung"}

NoAgentStatus == [status |-> "none", error |-> <<>>, health |-> NoBackendBody]

NoProbeResponse == [status |-> 0, state |-> "none", agent_status |-> NoAgentStatus]

\* the handler tasks of POST /mcp that run concurrently
Tasks == {"t1", "t2"}

IdleTask == [pc |-> "idle", body |-> NoBody, answer |-> NoReply, resp |-> NoResponse]

NoFrame == [request_id |-> Absent, tool_name |-> Absent]

\* the thin relay (mcp_server.py) and the agent service (agent.py)
Services == {"relay", "agent"}

\* the monitoring_worker threads that can be started
Threads == 1..MaxWorkers

\* the connections of GET /sse that are followed
Conns == {"c1", "c2"}

\* a connection no client has opened yet
NewStream == [pc |-> "new", i |-> 0, events |-> <<>>, eofs |-> 0, failed |-> FALSE]

Init ==
    /\ relay \in Relays
    /\ pc = "idle"
    /\ body = NoBody
    /\ pending = NoCall
    /\ calls = 0
    /\ answer = NoReply
    /\ resp = NoResponse
    /\ prev = "none"
    /\ backend = "up"
    /\ probe = "none"
    /\ hresp = NoProbeResponse
    /\ lastStatus = NoAgentStatus
    /\ streams = [c \in Conns |-> NewStream]
    /\ tasks = [t \in Tasks |-> IdleTask]
    /\ frames = [t \in Tasks |-> NoFrame]
    /\ monitoring_enabled = TRUE
    /\ monitoring_state = [is_monitoring |-> FALSE]
    /\ workers = [t \in Threads |-> "unborn"]
    /\ chain = <<>>
    /\ hops = 0
    /\ up = [s \in Services |-> TRUE]
    /\ llm = TRUE
    /\ readySeen = [s \in Services |-> FALSE]

\* session.get / session.post: an HTTP call of the agent service
IsHttp(call) == call.verb \in {"GET", "POST"}

\* mutant: tools/list and tools/call are refused until the request before
\* them was the handshake
Receive_AfterHandshake ==
    /\ pc = "idle"
    /\ \E data \in Bodies :
         LET h == IF /\ data.kind = "object"
                     /\ data.id # Absent
                     /\ data.method \in {"tools/list", "tools/call"}
                     /\ prev \notin {"initialize", "notifications/initialized"}
                  THEN Respond(ErrorResponse(data.id, -32002, <<"Server not initialized">>))
                  ELSE handle_mcp_request(relay, data)
         IN  /\ pc' = IF h.kind = "await" THEN "awaiting" ELSE "responded"
             /\ pending' = h.call
             /\ calls' = IF IsHttp(h.call) THEN 1 ELSE 0
             /\ resp' = h.resp
             /\ body' = data
    /\ UNCHANGED <<relay, answer, prev>>
    /\ UNCHANGED nonMcpVars

\* a client posts a body; the handler runs to its response or to its await
Receive ==
    /\ pc = "idle"
    /\ \E data \in Bodies :
         LET h == handle_mcp_request(relay, data)
         IN  /\ pc' = IF h.kind = "await" THEN "awaiting" ELSE "responded"
             /\ pending' = h.call
             /\ calls' = IF IsHttp(h.call) THEN 1 ELSE 0
             /\ resp' = h.resp
             /\ body' = data
    /\ UNCHANGED <<relay, answer, prev>>
    /\ UNCHANGED nonMcpVars

\* result = await ...; return web.json_response(...): the rest of tools/call,
\* with a raise out of the forwarding step caught by the handler's except
Resume(request_id, step) ==
    IF step.kind = "raise"
    THEN InternalErrorResponse(request_id, step.text[1])
    ELSE ToolResultResponse(request_id, step.text)

\* the thin relay's HTTP call ends; the handler wraps the text and responds
BackendReply ==
    /\ pc = "awaiting"
    /\ relay = "thin"
    /\ \E reply \in BackendReplies :
         LET step == ForwardResult(body.params.name, reply)
         IN  /\ answer' = reply
             /\ IF step.kind = "await"
                THEN /\ calls < MaxCalls
                     /\ pc' = "awaiting"
                     /\ pending' = step.call
                     /\ calls' = calls + 1
                     /\ resp' = resp
                ELSE /\ pc' = "responded"
                     /\ resp' = Resume(body.id, step)
                     /\ UNCHANGED <<pending, calls>>
    /\ UNCHANGED <<relay, body, prev>>
    /\ UNCHANGED nonMcpVars

\* the simple relay's call of the agent ends
AgentReturn ==
    /\ pc = "awaiting"
    /\ relay = "simple"
    /\ \E outcome \in AgentOutcomes :
         /\ answer' = outcome
         /\ resp' = Resume(body.id, ExecuteResult(body.params.name, outcome))
    /\ pc' = "responded"
    /\ UNCHANGED <<relay, body, pending, calls, prev>>
    /\ UNCHANGED nonMcpVars

\* what the history keeps of a served request
Served(data) == IF data.kind = "object" /\ data.method # Absent THEN data.method
                ELSE data.kind

\* the response is sent; the handler's locals are dropped
Deliver ==
    /\ pc = "responded"
    /\ pc' = "idle"
    /\ prev' = Served(body)
    /\ body' = NoBody
    /\ pending' = NoCall
    /\ calls' = 0
    /\ answer' = NoReply
    /\ resp' = NoResponse
    /\ UNCHANGED relay
    /\ UNCHANGED nonMcpVars

Next ==
    \/ Receive
    \/ BackendReply
    \/ AgentReturn
    \/ Deliver

Spec == Init /\ [][Next]_vars

\* ------------------------------------------------------------ the claims
\* an envelope with method and id
IsRequest(data) == data.kind = "object" /\ data.method # Absent /\ data.id # Absent

\* an envelope with method and no id
IsNotification(data) == data.kind = "object" /\ data.method # Absent /\ data.id = Absent

Responded == pc = "responded"

\* {"jsonrpc": "2.0", "id": id, "result": ...} and nothing else
IsRpcResult(response, id) ==
    /\ response.keys = {"jsonrpc", "id", "result"}
    /\ response.jsonrpc = "2.0"
    /\ response.id = id

\* {"jsonrpc": "2.0", "id": id, "error": {code, message}} and nothing else
IsRpcError(response, id, code, message) ==
    /\ response.keys = {"jsonrpc", "id", "error"}
    /\ response.jsonrpc = "2.0"
    /\ response.id = id
    /\ response.error = [code |-> code, message |-> message]

Range(seq) == {seq[i] : i \in DOMAIN seq}

\* C1: a request (method and id) whose method is not initialize, tools/list or
\* tools/call is answered with the error -32601 "Unknown method: <method>"
\* and the request's own id
C1_UnknownMethodIsMinus32601 ==
    (Responded /\ IsRequest(body) /\ body.method \notin KnownMethods)
    => IsRpcError(resp, body.id, -32601, <<"Unknown method: ", Str(body.method)>>)

C1_Witness ==
    /\ Responded /\ relay = "thin"
    /\ body.kind = "object" /\ body.method = "resources/list" /\ body.id = "req-a"
    /\ body.params.kind = "array"
    /\ resp.error.code = -32601 /\ resp.id = "req-a"

\* C2: a notification (method, no id) is answered with HTTP 200 and {} for
\* every method; the answer has no id, no result and no error
C2_NotificationGetsEmptyObject ==
    (Responded /\ IsNotification(body))
    => (resp.status = 200 /\ resp.keys = {})

C2_Witness ==
    /\ Responded /\ IsNotification(body)
    /\ body.method = "resources/list"
    /\ resp.status = 200 /\ resp.keys = {}

\* C3 (as claimed): a body that is not valid JSON, or that has no method
\* field, is answered with HTTP 400 and the error -32700 "Parse error", no id
C3_ParseErrorFor400 ==
    (Responded /\ (body.kind # "object" \/ body.method = Absent))
    => /\ resp.status = 400
       /\ resp.keys = {"jsonrpc", "error"}
       /\ resp.error = [code |-> -32700, message |-> <<"Parse error">>]

\* C4 (as claimed): an uncaught failure is answered with HTTP 500 and the
\* error -32603, and the answer carries the envelope's id when the envelope
\* had one
C4_InternalErrorKeepsId ==
    (Responded /\ resp.status = 500)
    => /\ resp.error.code = -32603
       /\ (body.kind = "object" /\ body.id # Absent)
             => ("id" \in resp.keys /\ resp.id = body.id)

\* C5: tools/call with params.name missing or empty is answered with the
\* error -32602 "Tool name is required" and the request's id
C5_ToolNameRequired ==
    (/\ Responded /\ IsRequest(body) /\ body.method = "tools/call"
     /\ body.params.kind \in {"absent", "object"}
     /\ body.params.name \in {Absent, ""})
    => IsRpcError(resp, body.id, -32602, <<"Tool name is required">>)

C5_Witness ==
    /\ Responded /\ IsRequest(body) /\ body.method = "tools/call"
    /\ body.params.kind = "object" /\ body.params.name = ""
    /\ body.params.arguments.kind = "object"
    /\ resp.error.code = -32602 /\ resp.id = body.id

\* a tools/call request that names a tool, as a string or a number, which the
\* relay's catalog does not hold
NamesUnknownTool ==
    /\ IsRequest(body) /\ body.method = "tools/call"
    /\ body.params.kind = "object"
    /\ ~Falsy(body.params.name) /\ ~Unhashable(body.params.name)
    /\ body.params.name \notin Range(Catalog(relay))

\* C6 (as claimed): an unknown tool name gets a successful result whose text
\* is exactly "Unknown tool: <name>"
C6_SentinelIsExact ==
    (Responded /\ NamesUnknownTool)
    => /\ IsRpcResult(resp, body.id)
       /\ resp.result.text = <<"Unknown tool: ", Str(body.params.name)>>

\* C6 (amended): an unknown tool name given as a string or a number gets a
\* successful result whose text is "Unknown tool: <name>" after the cross
\* mark the relay puts before it
C6_SentinelAfterCrossMark ==
    (Responded /\ NamesUnknownTool)
    => /\ resp.status = 200
       /\ IsRpcResult(resp, body.id)
       /\ resp.result.kind = "content"
       /\ Len(resp.result.text) = 3
       /\ resp.result.text[1] = CrossMark(relay)
       /\ SubSeq(resp.result.text, 2, 3) = <<"Unknown tool: ", Str(body.params.name)>>

C6_Witness ==
    /\ Responded /\ NamesUnknownTool /\ relay = "thin"
    /\ body.params.name = "bogus_tool"
    /\ resp.result.text = <<"<U+274C> ", "Unknown tool: ", "bogus_tool">>

\* C7: a tools/call with a non-empty tool name always ends in a successful
\* result (HTTP 200, text content, no error, the request's id), however the
\* call of the backend ended
C7_ToolCallAlwaysAnswers ==
    (/\ Responded /\ IsRequest(body) /\ body.method = "tools/call"
     /\ body.params.kind = "object" /\ ~Falsy(body.params.name))
    => /\ resp.status = 200
       /\ IsRpcResult(resp, body.id)
       /\ resp.result.kind = "content"
       /\ Len(resp.result.text) > 0

C7_Witness ==
    /\ Responded /\ relay = "thin"
    /\ pending.verb = "POST" /\ answer.kind = "timeout"
    /\ IsRpcResult(resp, body.id)
    /\ resp.result.text[1] = "Error forwarding to agent service: "

ThinCatalog == {"sre_chat", "analyze_logs", "incident_response", "monitoring_advice",
                "health_check"}

SimpleCatalog == {"sre_chat", "analyze_logs", "health_check"}

\* C8 (as claimed): tools/list returns exactly the five tool names
C8_AlwaysFiveTools ==
    (Responded /\ IsRequest(body) /\ body.method = "tools/list")
    => /\ IsRpcResult(resp, body.id)
       /\ Len(resp.result.tools) = 5
       /\ Range(resp.result.tools) = ThinCatalog

\* C8 (amended): tools/list returns the relay's fixed catalog, the five names
\* in the thin relay and sre_chat, analyze_logs, health_check in the simple
\* one, for every id, every params and every request served before
C8_FixedCatalogPerRelay ==
    (Responded /\ IsRequest(body) /\ body.method = "tools/list")
    => LET names == IF relay = "thin" THEN ThinCatalog ELSE SimpleCatalog
       IN  /\ resp.status = 200
           /\ IsRpcResult(resp, body.id)
           /\ resp.result.kind = "tools"
           /\ Len(resp.result.tools) = Cardinality(names)
           /\ Range(resp.result.tools) = names

C8_Witness ==
    /\ Responded /\ relay = "thin" /\ prev = "tools/call"
    /\ body.kind = "object" /\ body.method = "tools/list" /\ body.id = "json:null"
    /\ body.params.kind = "array"
    /\ Len(resp.result.tools) = 5

\* C9: a response to an envelope with an id has jsonrpc "2.0" and exactly one
\* of result and error
C9_ExactlyOneOfResultAndError ==
    (Responded /\ body.kind = "object" /\ body.id # Absent)
    => /\ resp.jsonrpc = "2.0" /\ "jsonrpc" \in resp.keys
       /\ ("result" \in resp.keys) # ("error" \in resp.keys)

C9_Witness ==
    /\ Responded /\ relay = "thin" /\ IsRequest(body) /\ body.method = "tools/call"
    /\ answer.kind = "http" /\ answer.status = 500
    /\ "result" \in resp.keys /\ "error" \notin resp.keys

\* C10: when the backend answers a forwarded call with HTTP 200 and a JSON
\* object, the result text is the tool's field of that object (response for
\* sre_chat and incident_response, analysis for analyze_logs, advice for
\* monitoring_advice), or a literal placeholder when the field is absent
C10_TextIsToolField ==
    (/\ Responded /\ relay = "thin" /\ pending.verb = "POST"
     /\ answer.kind = "http" /\ answer.status = 200 /\ answer.body.kind = "object")
    => LET name  == body.params.name
           field == CASE name \in {"sre_chat", "incident_response"} -> "response"
                      [] name = "analyze_logs"                      -> "analysis"
                      [] name = "monitoring_advice"                 -> "advice"
       IN  /\ resp.status = 200
           /\ IsRpcResult(resp, body.id)
           /\ Len(resp.result.text) = 1
           /\ IF field \in DOMAIN answer.body.fields
              THEN resp.result.text[1] = answer.body.fields[field]
              ELSE resp.result.text[1] \in {"No response", "No analysis", "No advice"}

C10_Witness ==
    /\ Responded /\ relay = "thin"
    /\ body.id = "json:1" /\ body.method = "tools/call"
    /\ body.params.name = "sre_chat"
    /\ body.params.arguments.kind = "object"
    /\ DOMAIN body.params.arguments.obj = {"message"}
    /\ pending.path = "/chat"
    /\ answer.status = 200 /\ DOMAIN answer.body.fields = {"response"}
    /\ resp = ResultResponse("json:1",
                [kind |-> "content", serverName |-> "", protocolVersion |-> "", version |-> "",
                 tools |-> <<>>, text |-> <<"hello">>])

\* ------------------------------------------------ liveness and readiness
\* session.get(f"{self.agent_service_url}/health", timeout=5)
ProbeCall == [verb |-> "GET", path |-> "/health", json |-> NoObject, timeout |-> 5]

\* what the agent service in state b answers to GET /health
RepliesOf(b) ==
    CASE b = "up"       -> { r \in BackendReplies : r.kind = "http" /\ r.status = 200
                                                    /\ r.body.kind # "not_json" }
      [] b = "bad_body" -> { r \in BackendReplies : r.kind = "http" /\ r.status = 200
                                                    /\ r.body.kind = "not_json" }
      [] b = "error"    -> { r \in BackendReplies : r.kind = "http" /\ r.status # 200 }
      [] b = "down"     -> { r \in BackendReplies : r.kind = "connect_error" }
      [] b = "hung"     -> { r \in BackendReplies : r.kind = "timeout" }

\* mutant: a status other than 200 counts as no connection
check_agent_service_NoErrorClass(reply) ==
    IF reply.kind = "http" /\ reply.status = 200 /\ reply.body.kind # "not_json"
    THEN [status |-> "connected", error |-> <<>>, health |-> reply.body]
    ELSE [status |-> "disconnected", error |-> <<"no connection">>,
          health |-> NoBackendBody]

\* MCPServer._check_agent_service from the end of its GET: response.json()
\* raises on a body that is not JSON, and every exception is "disconnected"
check_agent_service(reply) ==
    IF reply.kind = "http"
    THEN IF reply.status = 200
         THEN IF reply.body.kind = "not_json"
              THEN [status |-> "disconnected",
                    error |-> <<"Attempt to decode JSON with unexpected mimetype">>,
                    health |-> NoBackendBody]
              ELSE [status |-> "connected", error |-> <<>>, health |-> reply.body]
         ELSE [status |-> "error", error |-> <<"HTTP ", ToString(reply.status)>>,
               health |-> NoBackendBody]
    ELSE [status |-> "disconnected",
          error |-> <<IF reply.kind = "timeout" THEN "" ELSE "Cannot connect to host">>,
          health |-> NoBackendBody]

\* mutant: a connected status is kept and answered again
AgentStatusOf_Cached(reply, previous) ==
    IF previous.status = "connected" THEN previous ELSE check_agent_service(reply)

\* agent_status = await self._check_agent_service(): made from the reply of
\* this request's own probe; nothing of an earlier probe is kept or read
AgentStatusOf(reply, previous) == check_agent_service(reply)

\* mutant: the not_ready answer is sent without status=503
handle_readiness_Always200(agent_status) ==
    [status |-> 200,
     state |-> IF agent_status.status # "connected" THEN "not_ready" ELSE "ready",
     agent_status |-> agent_status]

\* MCPServer.handle_readiness from the end of its probe
handle_readiness(agent_status) ==
    IF agent_status.status # "connected"
    THEN [status |-> 503, state |-> "not_ready", agent_status |-> agent_status]
    ELSE [status |-> 200, state |-> "ready", agent_status |-> agent_status]

\* mutant: liveness probes the agent service as readiness does
HealthCall_Probe(r) == ProbeCall

\* the call handle_health makes: none in the thin relay, the in-process
\* SREAgent.health_check() in the simple relay
HealthCall(r) ==
    IF r = "thin" THEN NoCall
    ELSE [verb |-> "agent", path |-> "health_check", json |-> NoObject, timeout |-> 0]

\* handle_health: {"status": "healthy", ...} with the default status 200
handle_health(r) == [status |-> 200, state |-> "healthy", agent_status |-> NoAgentStatus]

\* GET /health: the whole handler
GetHealth ==
    /\ pc = "idle"
    /\ probe' = "/health"
    /\ pending' = HealthCall(relay)
    /\ calls' = IF IsHttp(HealthCall(relay)) THEN 1 ELSE 0
    /\ hresp' = handle_health(relay)
    /\ pc' = "responded"
    /\ UNCHANGED <<relay, body, answer, resp, prev, backend, lastStatus>>
    /\ UNCHANGED <<sseVars, concVars, monVars, meshVars>>

\* GET /ready of the thin relay up to the probe of the agent service
GetReady ==
    /\ pc = "idle"
    /\ relay = "thin"
    /\ probe' = "/ready"
    /\ pending' = ProbeCall
    /\ calls' = 1
    /\ pc' = "awaiting"
    /\ UNCHANGED <<relay, body, answer, resp, prev, backend, hresp, lastStatus>>
    /\ UNCHANGED <<sseVars, concVars, monVars, meshVars>>

\* the probe ends as the agent service's state decides; the handler responds
ProbeReply ==
    /\ pc = "awaiting"
    /\ probe = "/ready"
    /\ \E reply \in RepliesOf(backend) :
         /\ answer' = reply
         /\ hresp' = handle_readiness(AgentStatusOf(reply, lastStatus))
    /\ pc' = "responded"
    /\ UNCHANGED <<relay, body, pending, calls, resp, prev, backend, probe, lastStatus>>
    /\ UNCHANGED <<sseVars, concVars, monVars, meshVars>>

\* the agent service goes up or down
BackendChanges ==
    /\ \E b \in BackendStates \ {backend} : backend' = b
    /\ UNCHANGED <<mcpVars, probe, hresp, lastStatus>>
    /\ UNCHANGED <<sseVars, concVars, monVars, meshVars>>

\* the probe's response is sent
DeliverProbe ==
    /\ pc = "responded"
    /\ probe # "none"
    /\ pc' = "idle"
    /\ probe' = "none"
    /\ pending' = NoCall
    /\ calls' = 0
    /\ answer' = NoReply
    /\ hresp' = NoProbeResponse
    /\ lastStatus' = IF probe = "/ready" THEN hresp.agent_status ELSE lastStatus
    /\ UNCHANGED <<relay, body, resp, prev, backend>>
    /\ UNCHANGED <<sseVars, concVars, monVars, meshVars>>

ProbeNext ==
    \/ GetHealth
    \/ GetReady
    \/ ProbeReply
    \/ BackendChanges
    \/ DeliverProbe

SpecProbe == Init /\ [][ProbeNext]_vars

ReadyAnswered == pc = "responded" /\ probe = "/ready"

IsReady == hresp.status = 200 /\ hresp.state = "ready"

IsNotReady == hresp.status = 503 /\ hresp.state = "not_ready"

\* C11 (as claimed): /ready is not_ready 503 whenever the probe fails to
\* connect and ready 200 whenever the probe's status is 200
C11_ReadyOnEvery200 ==
    ReadyAnswered
    => /\ (answer.kind = "connect_error") => IsNotReady
       /\ (answer.kind = "http" /\ answer.status = 200) => IsReady

\* C11 (amended): /ready is not_ready 503 whenever the probe fails to connect,
\* and ready 200 whenever the probe's status is 200 and its body decodes as
\* JSON; a 200 whose body does not decode is answered not_ready 503
C11_ReadyOnDecodable200 ==
    ReadyAnswered
    => /\ (answer.kind = "connect_error") => IsNotReady
       /\ (answer.kind = "http" /\ answer.status = 200 /\ answer.body.kind # "not_json")
             => IsReady
       /\ (answer.kind = "http" /\ answer.status = 200 /\ answer.body.kind = "not_json")
             => IsNotReady

C11_Witness ==
    /\ ReadyAnswered /\ backend = "bad_body"
    /\ answer.kind = "http" /\ answer.status = 200 /\ answer.body.kind = "not_json"
    /\ IsNotReady

\* C12: GET /health of the thin relay answers 200 with the healthy payload in
\* every state of the agent service and makes no call to it
C12_LivenessNeverProbes ==
    (pc = "responded" /\ probe = "/health" /\ relay = "thin")
    => /\ hresp = [status |-> 200, state |-> "healthy", agent_status |-> NoAgentStatus]
       /\ pending = NoCall
       /\ answer = NoReply

C12_Witness ==
    /\ pc = "responded" /\ probe = "/health" /\ relay = "thin"
    /\ backend = "down"
    /\ hresp.status = 200 /\ pending = NoCall

\* C19 (as claimed): the probe is connected exactly on 200 with a decodable
\* body, error exactly on another status, disconnected exactly on a network
\* failure or timeout; /ready is ready 200 iff connected, else not_ready 503
C19_DisconnectedIsNetworkOnly ==
    ReadyAnswered
    => LET st == hresp.agent_status.status
       IN  /\ st \in {"connected", "error", "disconnected"}
           /\ st = "connected"
                <=> (answer.kind = "http" /\ answer.status = 200
                     /\ answer.body.kind # "not_json")
           /\ st = "error" <=> (answer.kind = "http" /\ answer.status # 200)
           /\ st = "disconnected" <=> answer.kind \in {"connect_error", "timeout"}
           /\ IF st = "connected" THEN IsReady ELSE IsNotReady

\* C19 (amended): as claimed, except that disconnected is also the class of
\* a 200 answer whose body does not decode as JSON
C19_ProbeClasses ==
    ReadyAnswered
    => LET st == hresp.agent_status.status
       IN  /\ st \in {"connected", "error", "disconnected"}
           /\ st = "connected"
                <=> (answer.kind = "http" /\ answer.status = 200
                     /\ answer.body.kind # "not_json")
           /\ st = "error" <=> (answer.kind = "http" /\ answer.status # 200)
           /\ st = "disconnected"
                <=> \/ answer.kind \in {"connect_error", "timeout"}
                    \/ (answer.kind = "http" /\ answer.status = 200
                        /\ answer.body.kind = "not_json")
           /\ IF st = "connected" THEN IsReady ELSE IsNotReady

C19_Witness ==
    /\ ReadyAnswered
    /\ answer.kind = "http" /\ answer.status = 404
    /\ hresp.agent_status.status = "error" /\ IsNotReady

\* ------------------------------------------------------- the event stream
\* for i in range(100) in the thin relay, range(10) in the simple one
HeartbeatsThin == 100

HeartbeatsSimple == 10

\* mutant: one heartbeat too many (range(n + 1))
MaxHeartbeats_OffByOne(r) == IF r = "thin" THEN HeartbeatsThin + 1 ELSE HeartbeatsSimple + 1

MaxHeartbeats(r) == IF r = "thin" THEN HeartbeatsThin ELSE HeartbeatsSimple

\* data: {"type": "connected", ...}
ConnectedEvent == [type |-> "connected", count |-> -1]

\* mutant: the loop writes the connection event again
HeartbeatEvent_Connected(count) == [type |-> "connected", count |-> count]

\* data: {"type": "heartbeat", "count": i, ...}
HeartbeatEvent(count) == [type |-> "heartbeat", count |-> count]

\* mutant: the count is kept on the server object, shared by the connections
NextCount_Shared(ss, c) == ss["c1"].i + ss["c2"].i

\* the count of the next heartbeat: the loop variable i of the connection
NextCount(ss, c) == ss[c].i

\* finally: await response.write_eof(); return response
WriteEof(st) == [st EXCEPT !.eofs = @ + 1, !.pc = "closed"]

\* mutant: the failed write is swallowed inside the loop and the loop goes on
OnWriteError_Continue(st) == [st EXCEPT !.failed = TRUE, !.i = @ + 1]

\* except Exception as e: logger.error(...), then the finally clause
OnWriteError(st) == WriteEof([st EXCEPT !.failed = TRUE])

\* a client connects; response.prepare and the write of the connection event
\* succeed
Connect(c) ==
    /\ streams[c].pc = "new"
    /\ streams' = [streams EXCEPT ![c].pc = "streaming",
                                  ![c].events = <<ConnectedEvent>>]
    /\ UNCHANGED <<mcpVars, probeVars, concVars, monVars, meshVars>>

\* response.prepare raises (the client is gone): it is outside the try, so
\* the handler ends with the exception and without write_eof
PrepareFails(c) ==
    /\ streams[c].pc = "new"
    /\ streams' = [streams EXCEPT ![c].pc = "crashed"]
    /\ UNCHANGED <<mcpVars, probeVars, concVars, monVars, meshVars>>

\* the write of the connection event raises
ConnectedWriteFails(c) ==
    /\ streams[c].pc = "new"
    /\ streams' = [streams EXCEPT ![c] = OnWriteError(@)]
    /\ UNCHANGED <<mcpVars, probeVars, concVars, monVars, meshVars>>

\* one turn of the loop: asyncio.sleep, then the heartbeat is written
Heartbeat(c) ==
    /\ streams[c].pc = "streaming"
    /\ streams[c].i < MaxHeartbeats(relay)
    /\ streams' = [streams EXCEPT
                     ![c].events = Append(@, HeartbeatEvent(NextCount(streams, c))),
                     ![c].i = @ + 1]
    /\ UNCHANGED <<mcpVars, probeVars, concVars, monVars, meshVars>>

\* one turn of the loop in which the write of the heartbeat raises
HeartbeatFails(c) ==
    /\ streams[c].pc = "streaming"
    /\ streams[c].i < MaxHeartbeats(relay)
    /\ streams' = [streams EXCEPT ![c] = OnWriteError(@)]
    /\ UNCHANGED <<mcpVars, probeVars, concVars, monVars, meshVars>>

\* the loop is exhausted: the finally clause closes the stream
Finish(c) ==
    /\ streams[c].pc = "streaming"
    /\ streams[c].i >= MaxHeartbeats(relay)
    /\ streams' = [streams EXCEPT ![c] = WriteEof(@)]
    /\ UNCHANGED <<mcpVars, probeVars, concVars, monVars, meshVars>>

\* the steps the event loop takes for a connected stream
StreamStep(c) == Heartbeat(c) \/ HeartbeatFails(c) \/ Finish(c)

SSENext ==
    \/ \E c \in Conns : Connect(c)
    \/ \E c \in Conns : PrepareFails(c)
    \/ \E c \in Conns : ConnectedWriteFails(c)
    \/ \E c \in Conns : Heartbeat(c)
    \/ \E c \in Conns : HeartbeatFails(c)
    \/ \E c \in Conns : Finish(c)

SpecSSE == Init /\ [][SSENext]_vars

\* the event loop resumes every stream whose sleep or write has ended
SpecSSEFair == SpecSSE /\ \A c \in Conns : WF_vars(StreamStep(c))

\* the events of a stream after its first
Later(events) == {k \in DOMAIN events : k > 1}

\* C13: on every stream the first event is connected, it is emitted once, and
\* every later event is a heartbeat
C13_ConnectedFirstAndOnce ==
    \A c \in Conns :
        LET events == streams[c].events
        IN  /\ events # <<>> => events[1].type = "connected"
            /\ \A k \in Later(events) : events[k].type = "heartbeat"

C13_Witness ==
    /\ streams["c1"].pc = "streaming"
    /\ Len(streams["c1"].events) = 4
    /\ streams["c1"].events[1].type = "connected"
    /\ streams["c1"].events[4].type = "heartbeat"

\* C14: the heartbeat counts of a stream are 0, 1, 2, ... without gap or
\* repeat, whatever the other streams emit meanwhile
C14_CountsAreGapFreePerStream ==
    \A c \in Conns :
        \A k \in Later(streams[c].events) : streams[c].events[k].count = k - 2

C14_Witness ==
    /\ streams["c1"].pc = "streaming" /\ streams["c2"].pc = "streaming"
    /\ Len(streams["c1"].events) = 4 /\ streams["c1"].events[4].count = 2
    /\ Len(streams["c2"].events) = 2 /\ streams["c2"].events[2].count = 0

\* C15: a stream emits at most the connection event and 100 heartbeats (thin
\* relay) or 10 (simple relay), and every connected stream is closed in the end
C15_StreamsAreBoundedAndEnd ==
    \A c \in Conns :
        /\ [](Cardinality(Later(streams[c].events))
                 <= (IF relay = "thin" THEN 100 ELSE 10))
        /\ (streams[c].pc = "streaming")
              ~> (streams[c].pc = "closed" /\ streams[c].eofs = 1)

C15_Witness ==
    /\ relay = "thin"
    /\ streams["c1"].pc = "closed" /\ ~streams["c1"].failed
    /\ Len(streams["c1"].events) = 101
    /\ streams["c1"].events[101] = [type |-> "heartbeat", count |-> 99]

\* C20 (as claimed): write_eof is attempted exactly once on every path
\* through the handler, and a stream whose write failed is closed
C20_EofOnEveryPath ==
    \A c \in Conns :
        /\ streams[c].failed => streams[c].pc = "closed"
        /\ streams[c].pc \in {"closed", "crashed"} => streams[c].eofs = 1

\* C20 (amended): a stream whose write failed is closed, with write_eof
\* attempted once, and never changes again; write_eof is attempted exactly
\* once on every path on which response.prepare succeeded, and not at all when
\* response.prepare raised
C20_ClosedAfterFailedWrite ==
    /\ [](\A c \in Conns :
            /\ streams[c].failed => streams[c].pc = "closed"
            /\ streams[c].pc = "closed" => streams[c].eofs = 1
            /\ streams[c].pc = "crashed"
                  => (streams[c].eofs = 0 /\ streams[c].events = <<>>)
            /\ streams[c].pc \in {"new", "streaming"} => streams[c].eofs = 0)
    /\ [][\A c \in Conns : streams[c].failed => streams'[c] = streams[c]]_vars

C20_Witness ==
    /\ streams["c1"].failed /\ streams["c1"].pc = "closed"
    /\ streams["c1"].eofs = 1
    /\ Len(streams["c1"].events) = 3
    /\ streams["c2"].pc = "streaming"

\* a tools/call request of the tool `name` was answered after the agent
\* service answered its call with a status other than 200
AnsweredNon200 ==
    /\ Responded /\ relay = "thin" /\ probe = "none"
    /\ pending # NoCall
    /\ answer.kind = "http" /\ answer.status # 200

\* C17 (as claimed): on a status other than 200 the result text of every
\* tool, health_check included, holds the status code and the answer's body
C17_Non200TextHasStatusAndBody ==
    AnsweredNon200
    => /\ IsRpcResult(resp, body.id)
       /\ ToString(answer.status) \in Range(resp.result.text)
       /\ answer.body.raw \in Range(resp.result.text)

\* a tools/call request that names a tool of the relay's catalog and whose
\* arguments are an object or missing, in or after its call of the backend
CallsCatalogTool ==
    /\ pc \in {"awaiting", "responded"} /\ probe = "none"
    /\ IsRequest(body) /\ body.method = "tools/call"
    /\ body.params.kind = "object"
    /\ body.params.name \in Range(Catalog(relay))
    /\ body.params.arguments.kind \in {"absent", "object"}

\* the one field the claim gives each tool
ClaimedField(name) ==
    CASE name = "sre_chat"          -> {"message"}
      [] name = "analyze_logs"      -> {"logs"}
      [] name = "incident_response" -> {"incident"}
      [] name = "monitoring_advice" -> {"system"}
      [] name = "health_check"      -> {}

\* the forwarded body is exactly the tool's field, "" when it is missing
ForwardsOnlyTheField ==
    /\ pending # NoCall
    /\ DOMAIN pending.json = ClaimedField(body.params.name)
    /\ \A k \in DOMAIN pending.json :
          pending.json[k] = IF k \in DOMAIN body.params.arguments.obj
                            THEN body.params.arguments.obj[k] ELSE ""

\* C18 (as claimed): in both relays the forwarded body holds exactly the
\* tool's one field; extras are dropped and a missing field is sent as ""
C18_MissingArgumentSentEmpty == CallsCatalogTool => ForwardsOnlyTheField

\* the expected argument of the request is missing or empty
ExpectedIsEmpty ==
    \E k \in ClaimedField(body.params.name) :
        Get(body.params.arguments.obj, k, "") = ""

\* C18 (amended): the thin relay forwards exactly the tool's one field, ""
\* when it is missing; the simple relay passes exactly that field to the
\* agent when it is not empty, and otherwise answers "... is required" as
\* the result text without calling the agent
C18_ForwardedFieldPerRelay ==
    CallsCatalogTool
    => IF relay = "simple" /\ ExpectedIsEmpty
       THEN /\ pending = NoCall
            /\ Responded
            /\ IsRpcResult(resp, body.id)
            /\ resp.result.text \in {<<"Error: Message is required for sre_chat">>,
                                     <<"Error: Logs are required for analyze_logs">>}
       ELSE ForwardsOnlyTheField

C18_Witness ==
    /\ CallsCatalogTool /\ relay = "thin" /\ pc = "awaiting"
    /\ body.params.name = "analyze_logs"
    /\ DOMAIN body.params.arguments.obj = {"extra", "message"}
    /\ pending.verb = "POST" /\ pending.path = "/analyze-logs"
    /\ pending.json = [logs |-> ""]

\* ------------------------------------------- concurrent POST /mcp requests
\* the requests the concurrent clients send
ConcNames == {"sre_chat", "health_check", "bogus_tool", Absent}

ConcBodies ==
    { b \in Envelopes :
        /\ b.method \in {"tools/call", "tools/list", "resources/list"}
        /\ b.id \in {"json:1", "req-a", Absent}
        /\ \/ b.params.kind = "array"
           \/ /\ b.params.kind = "object"
              /\ b.params.name \in ConcNames
              /\ b.params.arguments.kind = "object"
              /\ DOMAIN b.params.arguments.obj = {"message"}
              /\ b.params.arguments.obj["message"] = "hi" }

\* a deterministic agent service: its answer to a call in state b
DeterministicReply(b) ==
    CASE b = "up"       -> [kind |-> "http", status |-> 200,
                            body |-> [kind |-> "object",
                                      fields |-> [k \in ResultFields |-> FieldText(k)],
                                      raw |-> "{..}"]]
      [] b = "bad_body" -> [kind |-> "http", status |-> 200,
                            body |-> [kind |-> "not_json", fields |-> NoObject,
                                      raw |-> "Bad Gateway"]]
      [] b = "error"    -> [kind |-> "http", status |-> 500,
                            body |-> [kind |-> "not_json", fields |-> NoObject,
                                      raw |-> "Bad Gateway"]]
      [] b = "down"     -> [kind |-> "connect_error", status |-> 0, body |-> NoBackendBody]
      [] b = "hung"     -> [kind |-> "timeout", status |-> 0, body |-> NoBackendBody]

\* mutant: request_id and tool_name are kept on the server object (self),
\* which all handlers share
Frame_OnSelf(t) == "t1"

\* where the handler of task t keeps request_id and tool_name across its
\* await: in its own locals
Frame(t) == t

\* a client posts a body to the thin relay; the handler of task t runs to its
\* response or to its await
TaskReceive(t) ==
    /\ tasks[t].pc = "idle"
    /\ \E data \in ConcBodies :
         LET h == handle_mcp_request(relay, data)
         IN  /\ tasks' = [tasks EXCEPT
                            ![t].pc = IF h.kind = "await" THEN "awaiting" ELSE "responded",
                            ![t].body = data,
                            ![t].resp = h.resp]
             /\ frames' = [frames EXCEPT
                            ![Frame(t)] = [request_id |-> data.id,
                                           tool_name |-> data.params.name]]
    /\ UNCHANGED <<mcpVars, probeVars, sseVars, monVars, meshVars>>

\* the call of task t ends; its handler resumes with its locals and responds
TaskBackendReply(t) ==
    /\ tasks[t].pc = "awaiting"
    /\ LET reply == DeterministicReply(backend)
           mine  == frames[Frame(t)]
       IN  tasks' = [tasks EXCEPT
                       ![t].pc = "responded",
                       ![t].answer = reply,
                       ![t].resp = Resume(mine.request_id,
                                          ForwardResult(mine.tool_name, reply))]
    /\ UNCHANGED <<mcpVars, probeVars, sseVars, monVars, meshVars, frames>>

\* the response of task t is sent; its locals are dropped
TaskDeliver(t) ==
    /\ tasks[t].pc = "responded"
    /\ tasks' = [tasks EXCEPT ![t] = IdleTask]
    /\ frames' = [frames EXCEPT ![Frame(t)] = NoFrame]
    /\ UNCHANGED <<mcpVars, probeVars, sseVars, monVars, meshVars>>

ConcInit ==
    /\ relay = "thin"
    /\ pc = "idle"
    /\ body = NoBody
    /\ pending = NoCall
    /\ calls = 0
    /\ answer = NoReply
    /\ resp = NoResponse
    /\ prev = "none"
    /\ backend \in BackendStates
    /\ probe = "none"
    /\ hresp = NoProbeResponse
    /\ lastStatus = NoAgentStatus
    /\ streams = [c \in Conns |-> NewStream]
    /\ tasks = [t \in Tasks |-> IdleTask]
    /\ frames = [t \in Tasks |-> NoFrame]
    /\ monitoring_enabled = TRUE
    /\ monitoring_state = [is_monitoring |-> FALSE]
    /\ workers = [t \in Threads |-> "unborn"]
    /\ chain = <<>>
    /\ hops = 0
    /\ up = [s \in Services |-> TRUE]
    /\ llm = TRUE
    /\ readySeen = [s \in Services |-> FALSE]

ConcNext ==
    \/ \E t \in Tasks : TaskReceive(t)
    \/ \E t \in Tasks : TaskBackendReply(t)
    \/ \E t \in Tasks : TaskDeliver(t)

SpecConc == ConcInit /\ [][ConcNext]_vars

\* the response a request gets when it is served alone: from its own body
\* and the reply to its own call
SoloResponse(data, reply) ==
    LET h == handle_mcp_request("thin", data)
    IN  IF h.kind = "respond"
        THEN h.resp
        ELSE Resume(data.id, ForwardResult(data.params.name, reply))

\* C16: under every interleaving each response is the one its own request
\* and the reply to its own call give (its id is its request's id), and two
\* identical requests get responses of the same status, keys and id
C16_ResponsesAreIndependent ==
    /\ \A t \in Tasks :
          tasks[t].pc = "responded"
          => /\ tasks[t].resp = SoloResponse(tasks[t].body, tasks[t].answer)
             /\ "id" \in tasks[t].resp.keys => tasks[t].resp.id = tasks[t].body.id
    /\ \A t, u \in Tasks :
          (/\ tasks[t].pc = "responded" /\ tasks[u].pc = "responded"
           /\ tasks[t].body = tasks[u].body)
          => /\ tasks[t].resp.status = tasks[u].resp.status
             /\ tasks[t].resp.keys = tasks[u].resp.keys
             /\ tasks[t].resp.id = tasks[u].resp.id

C16_Witness ==
    /\ tasks["t1"].pc = "responded" /\ tasks["t2"].pc = "responded"
    /\ tasks["t1"].body.method = "tools/call" /\ tasks["t2"].body.method = "tools/call"
    /\ tasks["t1"].body.id = "json:1" /\ tasks["t2"].body.id = "req-a"
    /\ tasks["t1"].body.params.name = "sre_chat"
    /\ tasks["t2"].body.params.name = "health_check"
    /\ tasks["t1"].answer.kind = "http" /\ tasks["t2"].answer.kind = "http"
    /\ tasks["t1"].resp.id = "json:1" /\ tasks["t2"].resp.id = "req-a"
    /\ tasks["t1"].resp.result.text = <<"hello">>

\* --------------------------------------------- timeouts of outbound calls
\* a client posts an envelope to the thin relay; the handler runs to its
\* response or to its outbound call
ReceiveCall ==
    /\ pc = "idle"
    /\ \E data \in ConcBodies :
         LET h == handle_mcp_request("thin", data)
         IN  /\ pc' = IF h.kind = "await" THEN "awaiting" ELSE "responded"
             /\ pending' = h.call
             /\ calls' = IF IsHttp(h.call) THEN 1 ELSE 0
             /\ resp' = h.resp
             /\ body' = data
    /\ UNCHANGED <<relay, answer, prev>>
    /\ UNCHANGED nonMcpVars

\* the outbound call of the suspended handler ends with reply; the handler of
\* /ready or of tools/call runs to its response
CallEnds(reply) ==
    /\ answer' = reply
    /\ pc' = "responded"
    /\ IF probe = "/ready"
       THEN /\ hresp' = handle_readiness(AgentStatusOf(reply, lastStatus))
            /\ resp' = resp
       ELSE /\ resp' = Resume(body.id, ForwardResult(body.params.name, reply))
            /\ hresp' = hresp
    /\ UNCHANGED <<relay, body, pending, calls, prev, backend, probe, lastStatus>>
    /\ UNCHANGED <<sseVars, concVars, monVars, meshVars>>

\* the agent service answers the call or refuses the connection; a hung
\* service does neither
CallAnswered ==
    /\ pc = "awaiting"
    /\ backend # "hung"
    /\ \E reply \in RepliesOf(backend) : CallEnds(reply)

\* the timeout of the call expires: the session raises asyncio.TimeoutError.
\* A call without a timeout has no timer
TimerFires ==
    /\ pc = "awaiting"
    /\ pending.timeout > 0
    /\ CallEnds([kind |-> "timeout", status |-> 0, body |-> NoBackendBody])

\* the response of POST /mcp is sent
DeliverCall ==
    /\ probe = "none"
    /\ Deliver

TimeoutNext ==
    \/ ReceiveCall
    \/ GetReady
    \/ CallAnswered
    \/ TimerFires
    \/ BackendChanges
    \/ DeliverCall
    \/ DeliverProbe

\* the event loop runs a timer that is due
SpecTimeout == ConcInit /\ [][TimeoutNext]_vars /\ WF_vars(TimerFires)

\* C21: every outbound call of the thin relay (tool forward, readiness probe)
\* carries a positive finite timeout, and every suspended tools/call and
\* /ready handler gets to its response even if the agent service never answers
C21_EveryCallTimesOut ==
    /\ [](pc = "awaiting" => pending.timeout \in {5, 10, 30})
    /\ (pc = "awaiting") ~> (pc = "responded")

C21_Witness ==
    /\ pc = "responded" /\ probe = "none" /\ backend = "hung"
    /\ pending.verb = "POST" /\ pending.timeout = 30
    /\ answer.kind = "timeout"
    /\ resp.result.text = ForwardErrorText("")

\* ------------------------------------------------ one call, never retried
\* the call ended without a 200 answer
CallFailed == answer.kind \in {"connect_error", "timeout"}
              \/ (answer.kind = "http" /\ answer.status # 200)

\* C22: a tools/call request of the thin relay causes at most one HTTP call;
\* a call that fails, times out or is answered with another status than 200 is
\* followed by no second call, and the handler answers with a result whose
\* text describes the failure
C22_AtMostOneCallNoRetry ==
    relay = "thin"
    => /\ calls <= 1
       /\ pc = "awaiting" => calls = 1 /\ IsHttp(pending)
       /\ (Responded /\ calls = 1 /\ CallFailed)
          => /\ IsRpcResult(resp, body.id)
             /\ resp.status = 200
             /\ resp.result.kind = "content"
             /\ resp.result.text[1] \in {"Error forwarding to agent service: ",
                                         "Error: HTTP "}

C22_Witness ==
    /\ relay = "thin" /\ Responded /\ calls = 1
    /\ body.method = "tools/call" /\ body.params.name = "analyze_logs"
    /\ answer.kind = "http" /\ answer.status = 500
    /\ resp.result.text = <<"Error: HTTP ", "500", " - ", "Bad Gateway">>

\* ------------------------------------------------- readiness is not cached
\* C23: the answer of every GET /ready is made from a reply the agent service
\* gives in the state it is in when probed, whatever the probe before
\* answered: after a change of state the next answer reflects the new state
C23_ReadinessIsFresh ==
    [][(pc = "awaiting" /\ probe = "/ready" /\ pc' = "responded")
       => \E r \in RepliesOf(backend) :
             /\ answer' = r
             /\ hresp' = handle_readiness(check_agent_service(r))
             /\ (backend = "up") = (hresp'.state = "ready")]_vars

C23_Witness ==
    /\ ReadyAnswered
    /\ lastStatus.status = "connected"
    /\ backend = "down" /\ answer.kind = "connect_error"
    /\ IsNotReady /\ hresp.agent_status.status = "disconnected"

\* ------------------------------------- advertised tools and accepted tools
\* a tools/call request whose params are an object and whose name is truthy
NamesATool ==
    /\ IsRequest(body) /\ body.method = "tools/call"
    /\ body.params.kind = "object"
    /\ ~Falsy(body.params.name)

\* the answer is the Unknown-tool text, made without a call
IsUnknownToolAnswer ==
    /\ Responded /\ pending = NoCall
    /\ IsRpcResult(resp, body.id)
    /\ resp.result.text = UnknownToolText(relay, body.params.name)

\* the handler has called, or is calling, the tool's own endpoint with the
\* tool's own request shape
CallsOwnEndpoint ==
    LET name == body.params.name
    IN  IF relay = "thin"
        THEN /\ name \in DOMAIN endpoint_map
             /\ pending.path = endpoint_map[name]
             /\ DOMAIN pending.json = IF name = "health_check" THEN {}
                                      ELSE {ExpectedArgument(name)}
        ELSE /\ pending.verb = "agent"
             /\ pending.path = CASE name = "sre_chat"     -> "chat"
                                 [] name = "analyze_logs" -> "analyze_logs"
                                 [] name = "health_check" -> "health_check"

\* C24 (as claimed): the advertised names are the accepted names, and a
\* tools/call naming anything outside the advertised set gets the
\* Unknown-tool answer
C24_OutsideCatalogIsUnknownTool ==
    (Responded /\ NamesATool /\ body.params.name \notin Range(Catalog(relay)))
    => IsUnknownToolAnswer

\* C24 (amended): in each relay the names tools/list advertises are the names
\* the forwarding step has an endpoint and a request shape for: a call of an
\* advertised tool never gets the Unknown-tool answer and, once made, goes to
\* the tool's own endpoint; a string or number name outside the advertised
\* set gets the Unknown-tool answer without a call
C24_AdvertisedIsAccepted ==
    /\ Range(Catalog("thin")) = DOMAIN endpoint_map
    /\ (NamesATool /\ pc # "idle")
       => IF body.params.name \in Range(Catalog(relay))
          THEN /\ ~IsUnknownToolAnswer
               /\ pending # NoCall => CallsOwnEndpoint
          ELSE ~Unhashable(body.params.name) => IsUnknownToolAnswer

C24_Witness ==
    /\ relay = "thin" /\ pc = "awaiting" /\ NamesATool
    /\ body.params.name = "monitoring_advice"
    /\ pending.verb = "POST" /\ pending.path = "/monitoring-advice"
    /\ DOMAIN pending.json = {"system"}

\* ------------------------------------------------ the handshake is stateless
\* the response the relay gives to a request served as the first one, from
\* the request and the end of its own call alone
AnswerAlone ==
    LET h == handle_mcp_request(relay, body)
    IN  IF h.kind = "respond"
        THEN h.resp
        ELSE Resume(body.id, IF relay = "thin"
                             THEN ForwardResult(body.params.name, answer)
                             ELSE ExecuteResult(body.params.name, answer))

\* C25: initialize is answered with the same handshake result and the
\* request's id every time; it leaves nothing behind in the handler, and
\* tools/list and tools/call are answered as if served first, whichever
\* request (an initialize, a notification, anything else, none) came before
C25_HandshakeIsFixedAndStateless ==
    /\ (Responded /\ IsRequest(body) /\ body.method = "initialize")
       => /\ IsRpcResult(resp, body.id)
          /\ resp.status = 200
          /\ resp.result = [kind |-> "initialize", serverName |-> ServerName(relay),
                            protocolVersion |-> "2024-11-05", version |-> "1.0.0",
                            tools |-> <<>>, text |-> <<>>]
          /\ pending = NoCall
    /\ (Responded /\ IsRequest(body) /\ body.method \in {"tools/list", "tools/call"})
       => resp = AnswerAlone
    /\ pc = "idle"
       => /\ body = NoBody /\ pending = NoCall /\ calls = 0
          /\ answer = NoReply /\ resp = NoResponse

C25_Witness ==
    /\ Responded /\ prev = "initialize"
    /\ IsRequest(body) /\ body.method = "tools/list"
    /\ resp = AnswerAlone
    /\ resp.result.kind = "tools" /\ resp.result.tools = Catalog(relay)

\* -------------------------------------------- the two relays side by side
OtherRelay(r) == IF r = "thin" THEN "simple" ELSE "thin"

\* what the dispatchers are compared on: HTTP status, id, members, error code
Outcome(response) ==
    [status |-> response.status, id |-> response.id, keys |-> response.keys,
     code |-> response.error.code]

\* the outcomes relay r can give to the body data, over every end of its call
OutcomesOf(r, data) ==
    LET h == handle_mcp_request(r, data)
    IN  IF h.kind = "respond"
        THEN {Outcome(h.resp)}
        ELSE IF r = "thin"
        THEN {Outcome(Resume(data.id, ForwardResult(data.params.name, reply))) :
                  reply \in BackendReplies}
        ELSE {Outcome(Resume(data.id, ExecuteResult(data.params.name, outcome))) :
                  outcome \in AgentOutcomes}

\* C26: whatever body one relay has answered, the other relay answers it with
\* the same HTTP status, the same id and the same kind of outcome (empty
\* acknowledgement, error of the same code, or result), however its own call
\* of the backend ends
C26_RelaysAgreeOnOutcome ==
    Responded => OutcomesOf(OtherRelay(relay), body) = {Outcome(resp)}

C26_Witness ==
    /\ Responded /\ relay = "simple"
    /\ IsRequest(body) /\ body.method = "tools/call"
    /\ body.params.name = "incident_response"
    /\ resp.result.text = UnknownToolText("simple", "incident_response")
    /\ handle_mcp_request("thin", body).kind = "await"
    /\ Outcome(resp) = [status |-> 200, id |-> body.id,
                        keys |-> {"jsonrpc", "id", "result"}, code |-> 0]

\* --------------------------------------------- what reaches the backend
\* a tools/call request that names a tool of the thin relay's catalog
ForwardsCatalogTool ==
    /\ IsRequest(body) /\ body.method = "tools/call"
    /\ body.params.kind = "object"
    /\ body.params.name \in Range(Catalog("thin"))

\* C27: an HTTP call of the backend is made only for a tools/call request
\* whose name is in the catalog; every other POST /mcp (missing, empty or
\* unknown name, initialize, tools/list, notification, unknown method, a body
\* that is no envelope) is answered without any call
C27_OnlyCatalogToolsReachBackend ==
    /\ (calls > 0 \/ IsHttp(pending)) => (relay = "thin" /\ ForwardsCatalogTool)
    /\ (Responded /\ relay = "thin" /\ ~ForwardsCatalogTool)
       => /\ calls = 0
          /\ pending = NoCall
          /\ answer = NoReply

C27_Witness ==
    /\ Responded /\ relay = "thin"
    /\ IsRequest(body) /\ body.method = "tools/call"
    /\ body.params.name = "bogus_tool"
    /\ calls = 0 /\ pending = NoCall /\ answer = NoReply
    /\ resp.result.text = UnknownToolText("thin", "bogus_tool")

\* ------------------------------------------------- HTTP status of POST /mcp
\* C28: the HTTP status is 400 exactly for the -32700 answer and 500 exactly
\* for the -32603 answer; every other answer (the errors -32601 and -32602,
\* the acknowledgement of a notification, every result, also one whose text
\* reports a failure of the backend) has the status 200
C28_StatusFollowsErrorCode ==
    Responded
    => /\ resp.status \in {200, 400, 500}
       /\ resp.status = 400 <=> resp.error.code = -32700
       /\ resp.status = 500 <=> resp.error.code = -32603
       /\ resp.error.code \in {0, -32601, -32602} => resp.status = 200
       /\ "result" \in resp.keys => resp.status = 200

C28_Witness ==
    /\ Responded
    /\ IsRequest(body) /\ body.method = "tools/call"
    /\ body.params.kind = "object" /\ body.params.name = Absent
    /\ resp.error.code = -32602 /\ resp.status = 200

\* ---------------------------------------- the agent's monitoring thread
\* the thread a threading.Thread(...).start() brings up next
NextThread == CHOOSE t \in Threads : workers[t] = "unborn" /\
                 \A u \in Threads : u < t => workers[u] # "unborn"

\* start_monitoring(): test and set of is_monitoring, then a new thread.
\* Called from the event loop, so no other start or stop runs inside it
start_monitoring ==
    /\ \E t \in Threads : workers[t] = "unborn"
    /\ IF monitoring_enabled /\ ~monitoring_state.is_monitoring
       THEN /\ monitoring_state' = [monitoring_state EXCEPT !.is_monitoring = TRUE]
            /\ workers' = [workers EXCEPT ![NextThread] = "testing"]
       ELSE UNCHANGED <<monitoring_state, workers>>
    /\ UNCHANGED <<mcpVars, probeVars, sseVars, concVars, meshVars, monitoring_enabled>>

\* stop_monitoring(): the flag is cleared; no thread is joined or told apart
stop_monitoring ==
    /\ monitoring_state' = [monitoring_state EXCEPT !.is_monitoring = FALSE]
    /\ UNCHANGED <<mcpVars, probeVars, sseVars, concVars, meshVars, monitoring_enabled, workers>>

\* while monitoring_state["is_monitoring"]: the loop's test
WorkerTest(t) ==
    /\ workers[t] = "testing"
    /\ workers' = [workers EXCEPT
                     ![t] = IF monitoring_state.is_monitoring THEN "checking" ELSE "done"]
    /\ UNCHANGED <<mcpVars, probeVars, sseVars, concVars, meshVars, monitoring_enabled,
                   monitoring_state>>

\* the body of the loop up to time.sleep(MONITORING_INTERVAL)
WorkerCheck(t) ==
    /\ workers[t] = "checking"
    /\ workers' = [workers EXCEPT ![t] = "sleeping"]
    /\ UNCHANGED <<mcpVars, probeVars, sseVars, concVars, meshVars, monitoring_enabled,
                   monitoring_state>>

\* the sleep ends; the worker is back at the loop's test
WorkerWake(t) ==
    /\ workers[t] = "sleeping"
    /\ workers' = [workers EXCEPT ![t] = "testing"]
    /\ UNCHANGED <<mcpVars, probeVars, sseVars, concVars, meshVars, monitoring_enabled,
                   monitoring_state>>

MonInit ==
    /\ relay = "thin"
    /\ pc = "idle"
    /\ body = NoBody
    /\ pending = NoCall
    /\ calls = 0
    /\ answer = NoReply
    /\ resp = NoResponse
    /\ prev = "none"
    /\ backend = "up"
    /\ probe = "none"
    /\ hresp = NoProbeResponse
    /\ lastStatus = NoAgentStatus
    /\ streams = [c \in Conns |-> NewStream]
    /\ tasks = [t \in Tasks |-> IdleTask]
    /\ frames = [t \in Tasks |-> NoFrame]
    /\ monitoring_enabled \in BOOLEAN
    /\ monitoring_state = [is_monitoring |-> FALSE]
    /\ workers = [t \in Threads |-> "unborn"]
    /\ chain = <<>>
    /\ hops = 0
    /\ up = [s \in Services |-> TRUE]
    /\ llm = TRUE
    /\ readySeen = [s \in Services |-> FALSE]

MonNext ==
    \/ start_monitoring
    \/ stop_monitoring
    \/ \E t \in Threads : WorkerTest(t)
    \/ \E t \in Threads : WorkerCheck(t)
    \/ \E t \in Threads : WorkerWake(t)

SpecMonitor == MonInit /\ [][MonNext]_vars

\* the worker has found is_monitoring set and is in the loop's body or sleep
InLoop(t) == workers[t] \in {"checking", "sleeping"}

\* C29: at most one monitoring_worker is in the monitoring loop at a time
C29_AtMostOneWorker ==
    Cardinality({t \in Threads : InLoop(t)}) <= 1

\* -------------------------- the probes of the relay and the agent service
Peer(s) == IF s = "relay" THEN "agent" ELSE "relay"

NoHop == [to |-> "none", route |-> ""]

\* mutant: each readiness probe asks for the other service's readiness
OutboundOf_ReadyCallsReady(s, route, initialized) ==
    IF route = "/ready" THEN [to |-> Peer(s), route |-> "/ready"] ELSE NoHop

\* the outbound call a probe handler makes.  The relay's handle_readiness GETs
\* the agent's /health (_check_agent_service); the agent's handle_readiness
\* GETs the relay's /health (_check_mcp_server) unless the SRE agent or its
\* llm is missing; neither handle_health calls anything
OutboundOf(s, route, initialized) ==
    IF route = "/ready"
    THEN IF s = "relay"
         THEN [to |-> "agent", route |-> "/health"]
         ELSE IF initialized THEN [to |-> "relay", route |-> "/health"] ELSE NoHop
    ELSE NoHop

\* a handler that has just been entered
NewHandler(s, route) ==
    [service |-> s, route |-> route, pc |-> "start", reply |-> NoReply,
     status |-> 0, state |-> "", peer_status |-> "none"]

\* the HTTP answer of a handler, as the caller's session sees it
ReplyOf(handler) ==
    [kind |-> "http", status |-> handler.status,
     body |-> [kind |-> "object", fields |-> NoObject, raw |-> "{..}"]]

\* SREAgentService._check_mcp_server classes the reply as the relay's
\* _check_agent_service does
check_mcp_server(reply) == check_agent_service(reply)

\* the answer of a handler that makes no call
AnswerWithoutCall(handler) ==
    IF handler.route = "/health"
    THEN [handler EXCEPT !.pc = "done", !.status = 200, !.state = "healthy"]
    ELSE [handler EXCEPT !.pc = "done", !.status = 503, !.state = "not_ready"]

\* the answer of a readiness handler whose call ended with reply: the relay is
\* ready only if the agent is connected; the agent reports the relay's status
\* and is ready in any case
AnswerAfterCall(handler, reply) ==
    IF handler.service = "relay"
    THEN LET r == handle_readiness(check_agent_service(reply))
         IN  [handler EXCEPT !.pc = "done", !.reply = reply,
                             !.status = r.status, !.state = r.state,
                             !.peer_status = r.agent_status.status]
    ELSE [handler EXCEPT !.pc = "done", !.reply = reply, !.status = 200,
                         !.state = "ready",
                         !.peer_status = check_mcp_server(reply).status]

Top == chain[Len(chain)]

ReplaceTop(handler) == [chain EXCEPT ![Len(chain)] = handler]

\* the kubelet, or a client, probes a service that accepts connections
ProbeArrives ==
    /\ chain = <<>>
    /\ \E s \in Services, route \in {"/health", "/ready"} :
         /\ up[s]
         /\ chain' = <<NewHandler(s, route)>>
    /\ hops' = 0
    /\ UNCHANGED <<mcpVars, probeVars, sseVars, concVars, monVars, up, llm, readySeen>>

\* the handler entered last runs to its answer or to its outbound call; a
\* call of a service that is down ends in the caller's except clause
HandlerRuns ==
    /\ chain # <<>>
    /\ Top.pc = "start"
    /\ LET out == OutboundOf(Top.service, Top.route, llm)
       IN  IF out = NoHop
           THEN /\ chain' = ReplaceTop(AnswerWithoutCall(Top))
                /\ hops' = hops
           ELSE /\ hops < MaxHops
                /\ hops' = hops + 1
                /\ IF up[out.to]
                   THEN chain' = Append(ReplaceTop([Top EXCEPT !.pc = "waiting"]),
                                        NewHandler(out.to, out.route))
                   ELSE chain' = ReplaceTop(AnswerAfterCall(Top,
                                     [kind |-> "connect_error", status |-> 0,
                                      body |-> NoBackendBody]))
    /\ UNCHANGED <<mcpVars, probeVars, sseVars, concVars, monVars, up, llm, readySeen>>

\* the called handler's answer reaches the handler that waits for it
CalleeReturns ==
    /\ Len(chain) >= 2
    /\ Top.pc = "done"
    /\ LET caller == chain[Len(chain) - 1]
       IN  chain' = [SubSeq(chain, 1, Len(chain) - 1) EXCEPT
                        ![Len(chain) - 1] = AnswerAfterCall(caller, ReplyOf(Top))]
    /\ UNCHANGED <<mcpVars, probeVars, sseVars, concVars, monVars, hops, up, llm, readySeen>>

\* the probe's answer is sent
ProbeAnswered ==
    /\ Len(chain) = 1
    /\ Top.pc = "done"
    /\ chain' = <<>>
    /\ readySeen' = IF Top.route = "/ready" /\ Top.state = "ready"
                    THEN [readySeen EXCEPT ![Top.service] = TRUE]
                    ELSE readySeen
    /\ UNCHANGED <<mcpVars, probeVars, sseVars, concVars, monVars, hops, llm, up>>

\* a service that handles nothing goes down or comes up
ServiceFlips ==
    /\ \E s \in Services :
         /\ \A i \in DOMAIN chain : chain[i].service # s
         /\ up' = [up EXCEPT ![s] = ~up[s]]
    /\ UNCHANGED <<mcpVars, probeVars, sseVars, concVars, monVars, chain, hops, llm, readySeen>>

\* the agent service's llm is loaded or lost
LlmChanges ==
    /\ llm' = ~llm
    /\ UNCHANGED <<mcpVars, probeVars, sseVars, concVars, monVars, chain, hops, up, readySeen>>

MeshNext ==
    \/ ProbeArrives
    \/ HandlerRuns
    \/ CalleeReturns
    \/ ProbeAnswered
    \/ ServiceFlips
    \/ LlmChanges

MeshInit ==
    /\ relay = "thin"
    /\ pc = "idle"
    /\ body = NoBody
    /\ pending = NoCall
    /\ calls = 0
    /\ answer = NoReply
    /\ resp = NoResponse
    /\ prev = "none"
    /\ backend = "up"
    /\ probe = "none"
    /\ hresp = NoProbeResponse
    /\ lastStatus = NoAgentStatus
    /\ streams = [c \in Conns |-> NewStream]
    /\ tasks = [t \in Tasks |-> IdleTask]
    /\ frames = [t \in Tasks |-> NoFrame]
    /\ monitoring_enabled = TRUE
    /\ monitoring_state = [is_monitoring |-> FALSE]
    /\ workers = [t \in Threads |-> "unborn"]
    /\ chain = <<>>
    /\ hops = 0
    /\ up \in [Services -> BOOLEAN]
    /\ llm \in BOOLEAN
    /\ readySeen = [s \in Services |-> FALSE]

SpecMesh == MeshInit /\ [][MeshNext]_vars

\* aiohttp runs a handler that can run and delivers an answer that is there
SpecMeshFair ==
    SpecMesh /\ WF_vars(HandlerRuns) /\ WF_vars(CalleeReturns) /\ WF_vars(ProbeAnswered)

\* C30: a readiness probe calls only the other service's /health, a /health
\* handler calls nothing, so a probe makes at most one outbound call and ends;
\* the relay's readiness follows the agent's /health answer and not the
\* agent's readiness
C30_ProbesNeverTriggerOneAnother ==
    /\ [](/\ hops <= 1
          /\ Len(chain) <= 2
          /\ \A i \in DOMAIN chain :
               /\ chain[i].route = "/health" => chain[i].pc # "waiting"
               /\ i > 1 => /\ chain[i].route = "/health"
                           /\ chain[i - 1].route = "/ready"
                           /\ chain[i].service = Peer(chain[i - 1].service)
          /\ (Len(chain) = 1 /\ Top.pc = "done" /\ Top.service = "relay"
              /\ Top.route = "/ready")
             => (Top.state = "ready" <=> Top.reply.status = 200))
    /\ (chain # <<>>) ~> (chain = <<>>)

C30_Witness ==
    /\ Len(chain) = 1 /\ Top.pc = "done"
    /\ Top.service = "relay" /\ Top.route = "/ready"
    /\ Top.state = "ready" /\ Top.reply.status = 200
    /\ Top.peer_status = "connected"
    /\ hops = 1 /\ ~llm /\ ~readySeen["agent"]
====
